---- MODULE Spec2Model ----
(***************************************************************************)
(* Model of chess/src/main.rs: the Board (tiles, pawns, click handling,    *)
(* rendering) and the Game loop (run, process_events, render).             *)
(*                                                                         *)
(* Four specifications:                                                    *)
(*   Spec         the program as main() runs it: Game::new, then           *)
(*                Game::run, with the operating system queueing events;    *)
(*   FairSpec     Spec with weak fairness of the game loop's own steps;    *)
(*   NewBoardSpec the board Board::new builds, and any sequence of calls   *)
(*                of Board's methods on it: the Board states the code can  *)
(*                produce;                                                 *)
(*   BoardSpec    the Board taken as a value: any Board value (bounded) as *)
(*                the start state, and its methods applied to it.  It is   *)
(*                wider than what the code produces and is used only for   *)
(*                properties stated of every Board value.                  *)
(***************************************************************************)
EXTENDS Integers, Sequences, FiniteSets

VARIABLES
    tiles,       \* Board.tiles: [row -> [col -> Tile]], rows and cols 0..7
    pawns,       \* Board.pawns: sequence of Pawn records
    is_running,  \* Game.is_running
    events,      \* the SDL event queue behind Game.events (EventPump)
    produced,    \* number of events the operating system has queued so far
    pc,          \* position of main(): "constructed", "loop", "process_events", "render", "sleep", "exited"
    canvas,      \* draw commands of the last render pass, in order
    lastCall,    \* the last Board method run: [op, x, y]
    panicked     \* TRUE once an index went out of range (Rust panics)

vars == <<tiles, pawns, is_running, events, produced, pc, canvas, lastCall, panicked>>

----
\* Program constants (main.rs lines 10..14)
WINDOW_SIZE == 800
BOARD_SIZE == 8
TILE_SIZE == 100
PIECE_SIZE == 90
PIECE_OFFSET == 5

\* Bounds of the model
MaxEvents == 3        \* events the operating system queues in one behaviour
MaxHighlighted == 2   \* highlighted tiles in a start state of BoardSpec

\* Pixel coordinates tried as click inputs on one axis: left of the window
\* (index -1), the band -99..-1 that truncating division sends to index 0,
\* the seventh and eighth tile (indices 6 and 7), and the first pixel past
\* the board (index 8).
PixelSamples == {-100, -50, 650, 750, 800}

\* Pixel coordinates tried as click inputs on one axis in NewBoardSpec:
\* PixelSamples and the middle of each of the eight tiles.
ClickSamples == PixelSamples \cup {50, 150, 250, 350, 450, 550}

\* Tiles that may be highlighted in a start state of BoardSpec: squares the
\* sampled clicks reach (rows 0, 6, 7) and squares they do not (row 3).
HighlightCells == {0, 3, 6, 7} \X {0, 7}

\* Index into Board.pawns of the pawn selected in a start state of BoardSpec
\* (0: none): the first and the last pawn.
SelectChoices == {0, 1, 8}

\* Clicks the operating system may queue in Spec: on the pawn at (7,0), on
\* the transposed square, and outside the board.
EventClicks == {<<750, 50>>, <<50, 750>>, <<850, 50>>}

Idx == 0 .. (BOARD_SIZE - 1)

----
\* Rect::new(x, y, w, h)
Rect(x, y, w, h) == [x |-> x, y |-> y, w |-> w, h |-> h]

\* Pawn::new (texture is kept as the path of the bitmap it was loaded from)
PawnNew(is_white, row, col) ==
    [ texture    |-> IF is_white THEN "assets/white_pawn.bmp" ELSE "assets/black_pawn.bmp",
      rect       |-> Rect(col * TILE_SIZE, row * TILE_SIZE, PIECE_SIZE, PIECE_SIZE),
      row        |-> row,
      col        |-> col,
      is_selected |-> FALSE,
      has_moved  |-> FALSE,
      color      |-> IF is_white THEN "White" ELSE "Black",
      piece_type |-> "Pawn" ]

\* The tile pushed by the inner loop of Board::new
TileNew(row, col) ==
    [ rect           |-> Rect(col * TILE_SIZE, row * TILE_SIZE, TILE_SIZE, TILE_SIZE),
      tile_color     |-> IF (row + col) % 2 = 0 THEN "White" ELSE "Black",
      is_occupied    |-> FALSE,
      is_highlighted |-> FALSE ]

\* Board::new: the tiles and the pawns it returns
BoardNewTiles == [row \in Idx |-> [col \in Idx |-> TileNew(row, col)]]
BoardNewPawns == [i \in 1 .. BOARD_SIZE |-> PawnNew(FALSE, 7, i - 1)]

----
\* i32 division, which truncates toward zero (b > 0)
TruncDiv(a, b) == IF a >= 0 THEN a \div b ELSE -((-a) \div b)

\* `as usize` of an i32: sign extension.  A usize is represented by the
\* signed reading of its bit pattern, so the cast keeps the number and the
\* unsigned order is ULt.
AsUsize(v) == v

\* unsigned `<` on two usize values given by their signed readings
ULt(a, b) == IF (a < 0) = (b < 0) THEN a < b ELSE b < 0

\* valid_move with the bound taken inclusively
valid_move_inclusive(row, col) ==
    ULt(row, AsUsize(BOARD_SIZE) + 1) /\ ULt(col, AsUsize(BOARD_SIZE) + 1)

\* Board::valid_move
valid_move(row, col) ==
    ULt(row, AsUsize(BOARD_SIZE)) /\ ULt(col, AsUsize(BOARD_SIZE))

\* the row and column handle_click computes from the pixel: <<row, col>>
ClickCell(mouse_x, mouse_y) ==
    << AsUsize(TruncDiv(mouse_x, TILE_SIZE)), AsUsize(TruncDiv(mouse_y, TILE_SIZE)) >>

\* Vec indexing tiles[row][col] is in range
InRange(row, col) == row \in Idx /\ col \in Idx

\* clear_selections with a body that deselects every pawn
clear_selections_deselect(ps) ==
    [i \in DOMAIN ps |-> [ps[i] EXCEPT !.is_selected = FALSE]]

\* Board::clear_selections (empty body): the pawns it leaves
clear_selections(ps) == ps

\* clear_highlights whose outer loop stops one row early
clear_highlights_short(ts) ==
    [row \in DOMAIN ts |->
        [col \in DOMAIN ts[row] |->
            IF row < BOARD_SIZE - 1
            THEN [ts[row][col] EXCEPT !.is_highlighted = FALSE]
            ELSE ts[row][col]]]

\* Board::clear_highlights: the tiles it leaves
clear_highlights(ts) ==
    [row \in DOMAIN ts |->
        [col \in DOMAIN ts[row] |-> [ts[row][col] EXCEPT !.is_highlighted = FALSE]]]

\* Board::handle_click on the board: the state it leaves
HandleClickResult(ts, ps, mouse_x, mouse_y) ==
    LET row == ClickCell(mouse_x, mouse_y)[1]
        col == ClickCell(mouse_x, mouse_y)[2]
    IN  IF valid_move(row, col)
        THEN IF ~InRange(row, col)
             THEN [tiles |-> ts, pawns |-> ps, panic |-> TRUE]
             ELSE IF ~ts[row][col].is_highlighted
                  THEN [tiles |-> clear_highlights(ts),
                        pawns |-> clear_selections(ps),
                        panic |-> FALSE]
                  ELSE [tiles |-> ts, pawns |-> ps, panic |-> FALSE]
        ELSE [tiles |-> ts, pawns |-> ps, panic |-> FALSE]

\* the colour Board::render sets for a tile
TileDrawColor(tile) ==
    IF ~tile.is_highlighted
    THEN IF tile.tile_color = "White" THEN <<234, 221, 202>> ELSE <<111, 78, 55>>
    ELSE IF tile.tile_color = "White" THEN <<137, 196, 244>> ELSE <<112, 169, 215>>

\* Board::render: the fill_rect calls it makes, in order
BoardRender(ts, ps) ==
    [i \in 1 .. (BOARD_SIZE * BOARD_SIZE) |->
        LET row == (i - 1) \div BOARD_SIZE
            col == (i - 1) % BOARD_SIZE
        IN  [rect |-> ts[row][col].rect, color |-> TileDrawColor(ts[row][col])]]

----
\* Events
QuitEvent == [type |-> "Quit", x |-> 0, y |-> 0]
OtherEvent == [type |-> "KeyDown", x |-> 0, y |-> 0]
ClickEvent(x, y) == [type |-> "MouseButtonDown", x |-> x, y |-> y]
EventSet == {QuitEvent, OtherEvent} \cup {ClickEvent(p[1], p[2]) : p \in EventClicks}

NoCall == [op |-> "none", x |-> 0, y |-> 0]

\* Game::new (called by main)
Init ==
    /\ tiles = BoardNewTiles
    /\ pawns = BoardNewPawns
    /\ is_running = FALSE
    /\ events = << >>
    /\ produced = 0
    /\ pc = "constructed"
    /\ canvas = << >>
    /\ lastCall = NoCall
    /\ panicked = FALSE

\* The operating system queues an event
Enqueue(e) ==
    /\ pc # "exited"
    /\ produced < MaxEvents
    /\ events' = Append(events, e)
    /\ produced' = produced + 1
    /\ UNCHANGED <<tiles, pawns, is_running, pc, canvas, lastCall, panicked>>

\* Game::run, line 213
Run ==
    /\ pc = "constructed"
    /\ is_running' = TRUE
    /\ pc' = "loop"
    /\ UNCHANGED <<tiles, pawns, events, produced, canvas, lastCall, panicked>>

\* Game::run, line 214: the while condition
LoopCheck ==
    /\ pc = "loop"
    /\ pc' = IF is_running THEN "process_events" ELSE "exited"
    /\ UNCHANGED <<tiles, pawns, is_running, events, produced, canvas, lastCall, panicked>>

\* process_events that returns from run as soon as it polls Quit
PollEventLeave ==
    /\ pc = "process_events"
    /\ events # << >>
    /\ is_running' = IF Head(events).type = "Quit" THEN FALSE ELSE is_running
    /\ pc' = IF Head(events).type = "Quit" THEN "exited" ELSE pc
    /\ events' = Tail(events)
    /\ UNCHANGED <<tiles, pawns, produced, canvas, lastCall, panicked>>

\* Game::process_events: one iteration of the for loop over poll_iter
PollEvent ==
    /\ pc = "process_events"
    /\ events # << >>
    /\ is_running' = IF Head(events).type = "Quit" THEN FALSE ELSE is_running
    /\ events' = Tail(events)
    /\ UNCHANGED <<tiles, pawns, produced, pc, canvas, lastCall, panicked>>

\* Game::process_events: poll_iter is exhausted, the function returns
PollEmpty ==
    /\ pc = "process_events"
    /\ events = << >>
    /\ pc' = "render"
    /\ UNCHANGED <<tiles, pawns, is_running, events, produced, canvas, lastCall, panicked>>

\* Game::render: clear, Board::render, present
Render ==
    /\ pc = "render"
    /\ canvas' = BoardRender(tiles, pawns)
    /\ lastCall' = [op |-> "render", x |-> 0, y |-> 0]
    /\ pc' = "sleep"
    /\ UNCHANGED <<tiles, pawns, is_running, events, produced, panicked>>

\* Game::run, line 219: the sleep that ends an iteration
Sleep ==
    /\ pc = "sleep"
    /\ pc' = "loop"
    /\ UNCHANGED <<tiles, pawns, is_running, events, produced, canvas, lastCall, panicked>>

GameStep == Run \/ LoopCheck \/ PollEvent \/ PollEmpty \/ Render \/ Sleep

Next ==
    \/ \E e \in EventSet : Enqueue(e)
    \/ Run
    \/ LoopCheck
    \/ PollEvent
    \/ PollEmpty
    \/ Render
    \/ Sleep

Spec == Init /\ [][Next]_vars

FairSpec == Init /\ [][Next]_vars /\ WF_vars(GameStep)

----
(***************************************************************************)
(* BoardSpec: the Board as a value.  The start state is any Board value    *)
(* within the bounds: the tiles and pawns Board::new builds, with any set  *)
(* of at most MaxHighlighted tiles highlighted, the occupancy flags either *)
(* as Board::new leaves them or set on the pawns' squares, and at most one *)
(* pawn selected.                                                          *)
(* Only the member with no tile highlighted, no tile occupied and no pawn  *)
(* selected is the board Board::new returns; the code has no statement     *)
(* that sets is_highlighted, is_occupied or is_selected, so the other      *)
(* members are Board values the type admits, not states of the program.    *)
(***************************************************************************)
RECURSIVE SubsetsUpTo(_, _)
SubsetsUpTo(S, n) ==
    IF n = 0 THEN {{}}
    ELSE LET smaller == SubsetsUpTo(S, n - 1)
         IN  smaller \cup {T \cup {x} : T \in smaller, x \in S}

PawnCells(ps) == {<<ps[i].row, ps[i].col>> : i \in DOMAIN ps}

TilesWith(highlighted, occupied) ==
    [row \in Idx |-> [col \in Idx |->
        [BoardNewTiles[row][col] EXCEPT
            !.is_highlighted = (<<row, col>> \in highlighted),
            !.is_occupied = (<<row, col>> \in occupied)]]]

PawnsWithSelected(sel) ==
    [i \in DOMAIN BoardNewPawns |->
        [BoardNewPawns[i] EXCEPT !.is_selected = (i = sel)]]

BoardInit ==
    /\ \E h \in SubsetsUpTo(HighlightCells, MaxHighlighted) :
       \E o \in {{}, PawnCells(BoardNewPawns)} :
          tiles = TilesWith(h, o)
    /\ \E sel \in SelectChoices : pawns = PawnsWithSelected(sel)
    /\ is_running = FALSE
    /\ events = << >>
    /\ produced = 0
    /\ pc = "constructed"
    /\ canvas = << >>
    /\ lastCall = NoCall
    /\ panicked = FALSE

\* Board::handle_click(mouse_x, mouse_y)
HandleClick(mouse_x, mouse_y) ==
    /\ ~panicked
    /\ LET res == HandleClickResult(tiles, pawns, mouse_x, mouse_y)
       IN  /\ tiles' = res.tiles
           /\ pawns' = res.pawns
           /\ panicked' = res.panic
    /\ lastCall' = [op |-> "handle_click", x |-> mouse_x, y |-> mouse_y]
    /\ UNCHANGED <<is_running, events, produced, pc, canvas>>

\* Board::clear_highlights()
ClearHighlights ==
    /\ ~panicked
    /\ tiles' = clear_highlights(tiles)
    /\ lastCall' = [op |-> "clear_highlights", x |-> 0, y |-> 0]
    /\ UNCHANGED <<pawns, is_running, events, produced, pc, canvas, panicked>>

\* Board::clear_selections()
ClearSelections ==
    /\ ~panicked
    /\ pawns' = clear_selections(pawns)
    /\ lastCall' = [op |-> "clear_selections", x |-> 0, y |-> 0]
    /\ UNCHANGED <<tiles, is_running, events, produced, pc, canvas, panicked>>

BoardNext ==
    \/ \E x \in PixelSamples, y \in PixelSamples : HandleClick(x, y)
    \/ ClearHighlights
    \/ ClearSelections

BoardSpec == BoardInit /\ [][BoardNext]_vars

----
(***************************************************************************)
(* NewBoardSpec: Board::new (as Game::new calls it), then any sequence of  *)
(* calls of Board's methods.                                               *)
(***************************************************************************)
NewBoardNext ==
    \/ \E x \in ClickSamples, y \in ClickSamples : HandleClick(x, y)
    \/ ClearHighlights
    \/ ClearSelections

NewBoardSpec == Init /\ [][NewBoardNext]_vars

----
(***************************************************************************)
(* Properties                                                              *)
(***************************************************************************)
HandleClickCall(x, y) == [op |-> "handle_click", x |-> x, y |-> y]

\* some pawn of ps stands on (r, c)
PieceAt(ps, r, c) == \E i \in DOMAIN ps : ps[i].row = r /\ ps[i].col = c

NoneSelected(ps) == \A i \in DOMAIN ps : ~ps[i].is_selected

HighlightedCells(ts) == {rc \in Idx \X Idx : ts[rc[1]][rc[2]].is_highlighted}

\* C1: in every reachable state a tile reports occupied exactly when some
\* piece of the board's collection stands on it.
C1_OccupiedIffPiece ==
    \A r \in Idx, c \in Idx : tiles[r][c].is_occupied <=> PieceAt(pawns, r, c)

\* C4: every click event taken from the event queue is forwarded to
\* Board::handle_click with the event's coordinates.
C4_ClicksForwarded ==
    [][ ( /\ pc = "process_events"
          /\ events # << >>
          /\ events' = Tail(events)
          /\ Head(events).type = "MouseButtonDown" )
        => lastCall' = HandleClickCall(Head(events).x, Head(events).y) ]_vars

\* C7: for every cell (r, c), the origin pixel of the tile's draw region
\* resolves, as click handling resolves it, to a cell whose draw region is
\* that same region.
C7_RegionRoundTrip ==
    \A r \in Idx, c \in Idx :
        LET rect == tiles[r][c].rect
            cell == ClickCell(rect.x, rect.y)
        IN  /\ valid_move(cell[1], cell[2])
            /\ tiles[cell[1]][cell[2]].rect = rect

\* C8: a finished render pass has emitted one command per tile, row-major,
\* with the tile's rectangle and derived colour, followed by one command per
\* piece with the piece's rectangle and asset.
C8_RenderTilesThenPieces ==
    (pc = "sleep") =>
        /\ Len(canvas) = BOARD_SIZE * BOARD_SIZE + Len(pawns)
        /\ \A r \in Idx, c \in Idx :
              LET cmd == canvas[r * BOARD_SIZE + c + 1]
              IN  /\ cmd.rect = tiles[r][c].rect
                  /\ cmd.color = TileDrawColor(tiles[r][c])
        /\ \A j \in DOMAIN pawns :
              LET cmd == canvas[BOARD_SIZE * BOARD_SIZE + j]
              IN  /\ cmd.rect = pawns[j].rect
                  /\ cmd.asset = pawns[j].texture

\* the last Board call was handle_click(x, y), and this step made it
ClickStep(x, y) == lastCall' = HandleClickCall(x, y)

\* the index handle_click computes from one pixel coordinate lies in [0, 8)
IndexInBoard(p) == TruncDiv(p, TILE_SIZE) >= 0 /\ TruncDiv(p, TILE_SIZE) < BOARD_SIZE

\* ts2 differs from ts1 at most in the tiles' is_highlighted flags
SameButHighlights(ts1, ts2) ==
    /\ DOMAIN ts2 = DOMAIN ts1
    /\ \A r \in DOMAIN ts1 :
          /\ DOMAIN ts2[r] = DOMAIN ts1[r]
          /\ \A c \in DOMAIN ts1[r] :
                /\ ts2[r][c].is_occupied = ts1[r][c].is_occupied
                /\ ts2[r][c].tile_color = ts1[r][c].tile_color
                /\ ts2[r][c].rect = ts1[r][c].rect

\* the cell the click of this step resolves to
ClickedCell == ClickCell(lastCall'.x, lastCall'.y)

\* C2: with no piece selected, a click that resolves to a cell holding a
\* piece leaves that piece selected and at least one tile highlighted.
C2_ClickSelectsPiece ==
    [][ ( /\ lastCall'.op = "handle_click"
          /\ NoneSelected(pawns)
          /\ InRange(ClickedCell[1], ClickedCell[2])
          /\ PieceAt(pawns, ClickedCell[1], ClickedCell[2]) )
        => /\ \E i \in DOMAIN pawns' :
                 /\ pawns'[i].is_selected
                 /\ pawns'[i].row = ClickedCell[1]
                 /\ pawns'[i].col = ClickedCell[2]
           /\ HighlightedCells(tiles') # {} ]_vars

\* the cell the last click resolved to
SelectingCell == ClickCell(lastCall.x, lastCall.y)

\* the pawn's forward step: the square one row up the board
ForwardCell(p) == <<p.row - 1, p.col>>

C5_OutOfBoundsClickIgnored ==
    [][ \A x \in PixelSamples, y \in PixelSamples :
          ( ClickStep(x, y) /\ ~(IndexInBoard(x) /\ IndexInBoard(y)) )
          => ( tiles' = tiles /\ pawns' = pawns /\ ~panicked' ) ]_vars

\* C5 witness: an out-of-bounds click has been handled on a board with a
\* highlighted tile, an occupied tile and a selected pawn, without failing.
C5_Witness ==
    /\ lastCall.op = "handle_click"
    /\ ~(IndexInBoard(lastCall.x) /\ IndexInBoard(lastCall.y))
    /\ HighlightedCells(tiles) # {}
    /\ ~NoneSelected(pawns)
    /\ \E r \in Idx, c \in Idx : tiles[r][c].is_occupied
    /\ ~panicked

\* C6: after clear_highlights no tile is highlighted, nothing but the
\* highlight flags has changed, and clearing again changes nothing.
C6_ClearHighlights ==
    [][ (lastCall'.op = "clear_highlights")
        => /\ \A r \in Idx, c \in Idx : ~tiles'[r][c].is_highlighted
           /\ DOMAIN tiles' = Idx
           /\ SameButHighlights(tiles, tiles')
           /\ pawns' = pawns
           /\ clear_highlights(tiles') = tiles' ]_vars

\* C6 witness: clear_highlights has run on a board with occupied tiles and
\* a selected pawn, which it left in place.
C6_Witness ==
    /\ lastCall.op = "clear_highlights"
    /\ HighlightedCells(tiles) = {}
    /\ ~NoneSelected(pawns)
    /\ \E r \in Idx, c \in Idx : tiles[r][c].is_occupied

\* C9: handle_click changes at most the tiles' is_highlighted flags, and
\* nothing at all when the resolved in-bounds tile is already highlighted.
C9_ClickFrame ==
    [][ \A x \in PixelSamples, y \in PixelSamples :
          LET cell == ClickCell(x, y)
          IN  ClickStep(x, y)
              => /\ SameButHighlights(tiles, tiles')
                 /\ Len(pawns') = Len(pawns)
                 /\ \A i \in DOMAIN pawns :
                       /\ pawns'[i].row = pawns[i].row
                       /\ pawns'[i].col = pawns[i].col
                       /\ pawns'[i].rect = pawns[i].rect
                       /\ pawns'[i].is_selected = pawns[i].is_selected
                       /\ pawns'[i].has_moved = pawns[i].has_moved
                 /\ ( ( /\ InRange(cell[1], cell[2])
                        /\ tiles[cell[1]][cell[2]].is_highlighted )
                      => ( tiles' = tiles /\ pawns' = pawns /\ panicked' = panicked ) ) ]_vars

\* C9 witness: an in-bounds click on a tile that is not highlighted has been
\* handled on a board with a selected pawn and occupied tiles.
C9_Witness ==
    /\ lastCall.op = "handle_click"
    /\ InRange(ClickCell(lastCall.x, lastCall.y)[1], ClickCell(lastCall.x, lastCall.y)[2])
    /\ HighlightedCells(tiles) = {}
    /\ ~NoneSelected(pawns)
    /\ \E r \in Idx, c \in Idx : tiles[r][c].is_occupied

\* a Quit event is being polled by this step
PollsQuit ==
    /\ pc = "process_events"
    /\ events # << >>
    /\ Head(events).type = "Quit"
    /\ events' = Tail(events)

\* C10: is_running is false after construction; run sets it; only polling
\* a Quit event clears it, and it is never set again; process_events is
\* always followed by render; once Quit has been polled the loop renders
\* that frame and exits without another iteration; the loop exits only
\* after a Quit, and until then keeps alternating process_events and render.
C10_LoopShutdown ==
    /\ [](pc = "constructed" => ~is_running)
    /\ [][ (is_running' # is_running)
           => IF is_running'
              THEN pc = "constructed" /\ pc' = "loop"
              ELSE PollsQuit ]_vars
    /\ [][ PollsQuit => ~is_running' ]_vars
    /\ [][ (pc # "constructed" /\ ~is_running) => ~is_running' ]_vars
    /\ [][ (pc' # pc)
           => CASE pc = "constructed"    -> pc' = "loop"
                [] pc = "loop"           -> pc' = IF is_running THEN "process_events" ELSE "exited"
                [] pc = "process_events" -> pc' = "render"
                [] pc = "render"         -> pc' = "sleep" /\ canvas' # << >>
                [] pc = "sleep"          -> pc' = "loop"
                [] OTHER                 -> FALSE ]_vars
    /\ [](pc = "exited" => ~is_running /\ canvas # << >>)
    /\ ((pc = "process_events" /\ ~is_running) ~> (pc = "exited"))
    /\ ((pc = "process_events") ~> (pc = "render"))
    /\ ((pc = "render") ~> (pc = "loop"))
    /\ ((pc = "loop" /\ is_running) ~> (pc = "process_events"))

\* C10 witness: a Quit was polled, the frame was rendered and the loop left.
C10_Witness ==
    /\ pc = "exited"
    /\ ~is_running
    /\ canvas # << >>
    /\ produced > 0

====
